---------------------------- MODULE Spec2Model ----------------------------
(***************************************************************************)
(* A model of the PR watcher: the Collector (collect_data.py), which polls *)
(* six search queries and appends one row to data.csv, and the Reporter    *)
(* (generate_chart.py), which reads data.csv, down-samples it for the      *)
(* chart and rewrites README.md and docs/index.html.                       *)
(*                                                                         *)
(* Texts are TLA+ strings; a document is a sequence of tokens.  A file is  *)
(* a record [exists, ...].  Time is a logical clock.                       *)
(***************************************************************************)
EXTENDS Integers, Sequences, FiniteSets, TLC

VARIABLES
    csv,          \* data.csv: [exists, lines]
    exclusive,    \* the external scheduler runs at most one Collector at a time
    remote,       \* what the search API currently counts, per metric
    clock,        \* the Collector's wall clock (logical)
    pc,           \* per Collector run: where it is in collect_data
    qi,           \* per run: the index in Q of the request in the loop
    r,            \* per run: the outcome of the last requests.get
    cnt,          \* per run: the dict cnt
    row,          \* per run: the row built at lines 52-54
    is_new_file,  \* per run: the flag of line 57
    snapshot,     \* per run: data.csv as it was when the run started (history)
    readme,       \* README.md: [exists, content]
    html,         \* docs/index.html: [exists, content]
    docs,         \* whether the directory docs/ exists
    chart,        \* chart.png: [exists, fig]
    docs_chart,   \* docs/chart.png: [exists, fig]
    now,          \* the Reporter's clock reading (line 351), already formatted
    result        \* what the last generate_chart call did

vars == <<csv, exclusive, remote, clock, pc, qi, r, cnt, row, is_new_file,
          snapshot, readme, html, docs, chart, docs_chart, now, result>>

collectorVars == <<csv, exclusive, remote, clock, pc, qi, r, cnt, row,
                   is_new_file, snapshot>>
reporterVars == <<readme, html, docs, chart, docs_chart, now, result>>

---------------------------------------------------------------------------
(* Bounds *)

\* Collector invocations (each process is one run of collect_data.py).
NumProcs == 2

\* The longest log the Reporter is given.
MaxRows == 17

Procs == 1..NumProcs

---------------------------------------------------------------------------
(* The CSV log *)

\* The values of Q, in the dict's (insertion) order.
Keys == <<"copilot_total", "copilot_merged", "codex_total", "codex_merged",
          "devin_commits", "jules_commits">>

KeySet == {Keys[i] : i \in 1..Len(Keys)}

Counts(a, b, c, d, e, f) ==
    [copilot_total |-> a, copilot_merged |-> b, codex_total |-> c,
     codex_merged |-> d, devin_commits |-> e, jules_commits |-> f]

ZeroCounts == Counts(0, 0, 0, 0, 0, 0)

\* The header line the Collector writes to a new file.
HeaderLine == [header |-> TRUE, timestamp |-> 0, v |-> ZeroCounts]

\* The data line for the list `row` of lines 53-54.
DataLine(ts, c) == [header |-> FALSE, timestamp |-> ts, v |-> c]

MissingCsv == [exists |-> FALSE, lines |-> <<>>]

---------------------------------------------------------------------------
(* The Collector *)

\* What one requests.get can come to: a 2xx response with total_count, a
\* non-success status, a 2xx body without total_count, or no response at all.
Outcomes == {"ok", "http_error", "no_total_count", "request_exception"}

\* Lines 41-44: requests.get raises, raise_for_status raises, or
\* data["total_count"] raises KeyError.
RaisesOnlyOnStatus(o) == o \in {"http_error", "request_exception"}
Raises(o) == o # "ok"

\* Line 57.
AlwaysNew(f) == TRUE
IsNewFile(f) == ~f.exists

\* Lines 60-63: the rows handed to the csv writer.
LinesToWrite(new, rw) == IF new THEN <<HeaderLine, rw>> ELSE <<rw>>

\* Line 58: mode "a" keeps what the file holds and writes at its end.
Truncating(lines, new) == new
Appended(lines, new) == lines \o new

NoRow == DataLine(0, ZeroCounts)

\* A run begins (line 68).  Under an exclusive scheduler no other run is
\* in progress.
Start(p) ==
    /\ pc[p] = "idle"
    /\ exclusive => \A q \in Procs : pc[q] \in {"idle", "done", "aborted"}
    /\ pc' = [pc EXCEPT ![p] = "fetch"]
    /\ qi' = [qi EXCEPT ![p] = 1]
    /\ cnt' = [cnt EXCEPT ![p] = ZeroCounts]
    /\ snapshot' = [snapshot EXCEPT ![p] = csv]
    /\ UNCHANGED <<csv, exclusive, remote, clock, r, row, is_new_file>>
    /\ UNCHANGED reporterVars

\* One pass of the loop of lines 30-49: the request, raise_for_status,
\* the JSON body and cnt[key].
Fetch(p) ==
    /\ pc[p] = "fetch"
    /\ \E o \in Outcomes :
        /\ r' = [r EXCEPT ![p] = o]
        /\ IF Raises(o)
           THEN /\ pc' = [pc EXCEPT ![p] = "aborted"]
                /\ UNCHANGED <<qi, cnt>>
           ELSE /\ cnt' = [cnt EXCEPT ![p][Keys[qi[p]]] = remote[Keys[qi[p]]]]
                /\ IF qi[p] = Len(Keys)
                   THEN /\ pc' = [pc EXCEPT ![p] = "stamp"]
                        /\ UNCHANGED qi
                   ELSE /\ pc' = pc
                        /\ qi' = [qi EXCEPT ![p] = qi[p] + 1]
    /\ UNCHANGED <<csv, exclusive, remote, clock, row, is_new_file, snapshot>>
    /\ UNCHANGED reporterVars

\* Lines 52-54: the timestamp and the row.
Stamp(p) ==
    /\ pc[p] = "stamp"
    /\ row' = [row EXCEPT ![p] = DataLine(clock, cnt[p])]
    /\ clock' = clock + 1
    /\ pc' = [pc EXCEPT ![p] = "exists"]
    /\ UNCHANGED <<csv, exclusive, remote, qi, r, cnt, is_new_file, snapshot>>
    /\ UNCHANGED reporterVars

\* Lines 56-57: the existence check.
Exists(p) ==
    /\ pc[p] = "exists"
    /\ is_new_file' = [is_new_file EXCEPT ![p] = IsNewFile(csv)]
    /\ pc' = [pc EXCEPT ![p] = "open"]
    /\ UNCHANGED <<csv, exclusive, remote, clock, qi, r, cnt, row, snapshot>>
    /\ UNCHANGED reporterVars

\* Line 58: open("a") creates the file when it is missing.
Open(p) ==
    /\ pc[p] = "open"
    /\ csv' = [csv EXCEPT !.exists = TRUE]
    /\ pc' = [pc EXCEPT ![p] = "write"]
    /\ UNCHANGED <<exclusive, remote, clock, qi, r, cnt, row, is_new_file,
                   snapshot>>
    /\ UNCHANGED reporterVars

\* Lines 59-65: the rows go to the writer's buffer and reach the file when
\* the with block closes it; the run returns.
WriteClose(p) ==
    /\ pc[p] = "write"
    /\ csv' = [csv EXCEPT !.lines =
                 Appended(csv.lines, LinesToWrite(is_new_file[p], row[p]))]
    /\ pc' = [pc EXCEPT ![p] = "done"]
    /\ UNCHANGED <<exclusive, remote, clock, qi, r, cnt, row, is_new_file,
                   snapshot>>
    /\ UNCHANGED reporterVars

\* The counts the API reports during the runs (the rows of the spec's
\* end-to-end scenario, and an API that finds nothing).
RemoteStates == {Counts(10, 5, 8, 2, 3, 1), Counts(14, 9, 8, 4, 6, 2), ZeroCounts}

CollectorIdle ==
    /\ pc = [p \in Procs |-> "idle"]
    /\ qi = [p \in Procs |-> 1]
    /\ r = [p \in Procs |-> "ok"]
    /\ cnt = [p \in Procs |-> ZeroCounts]
    /\ row = [p \in Procs |-> NoRow]
    /\ is_new_file = [p \in Procs |-> FALSE]
    /\ snapshot = [p \in Procs |-> MissingCsv]
    /\ clock = 1

ReporterIdle ==
    /\ readme = [exists |-> FALSE, content |-> <<>>]
    /\ html = [exists |-> FALSE, content |-> <<>>]
    /\ docs = FALSE
    /\ chart = [exists |-> FALSE, fig |-> "none"]
    /\ docs_chart = [exists |-> FALSE, fig |-> "none"]
    /\ now = "June 01, 2025 12:00 UTC"
    /\ result = "not run"

CollectInit ==
    /\ csv = MissingCsv
    /\ exclusive \in BOOLEAN
    /\ remote \in RemoteStates
    /\ CollectorIdle
    /\ ReporterIdle

CollectNext ==
    \E p \in Procs :
        \/ Start(p)
        \/ Fetch(p)
        \/ Stamp(p)
        \/ Exists(p)
        \/ Open(p)
        \/ WriteClose(p)

CollectSpec == CollectInit /\ [][CollectNext]_vars

---------------------------------------------------------------------------
(* Claims about the Collector *)

DataLines(lines) == SelectSeq(lines, LAMBDA l : ~l.header)
HeaderCount(lines) == Len(SelectSeq(lines, LAMBDA l : l.header))

Done == {p \in Procs : pc[p] = "done"}

\* The rows of the finished runs, in the order the runs took their
\* timestamps (under an exclusive scheduler: the order of the runs).
RECURSIVE RowsInOrder(_)
RowsInOrder(S) ==
    IF S = {} THEN <<>>
    ELSE LET p == CHOOSE x \in S : \A y \in S : row[x].timestamp <= row[y].timestamp
         IN <<row[p]>> \o RowsInOrder(S \ {p})

\* C1: a run one of whose six requests failed (a non-success status, a
\* body without total_count, or no response) is aborted, whichever request
\* it was, and at the step that aborts it data.csv is, under the
\* one-run-at-a-time scheduler, exactly what it was when the run started:
\* not created, no header, no row.
C1_AllOrNothing ==
    /\ [](\A p \in Procs : r[p] # "ok" => pc[p] = "aborted")
    /\ [][\A p \in Procs :
            (r'[p] # "ok" /\ pc[p] # "aborted" /\ exclusive)
                => (pc'[p] = "aborted" /\ csv' = snapshot[p])]_vars

\* An earlier run has written the log and a later run failed at its sixth
\* request.
C1_Witness ==
    /\ exclusive
    /\ csv.exists
    /\ \E p \in Procs : pc[p] = "aborted" /\ qi[p] = Len(Keys) /\ r[p] = "no_total_count"

\* C2: starting from a missing log, after n >= 1 successful runs made one
\* after another the log is one header line followed by the n rows of
\* those runs in run order (so each run added exactly one data line and
\* changed no earlier line).
C2_HeaderThenRows ==
    exclusive =>
        /\ Done = {} => csv.lines = <<>>
        /\ Done # {} => csv.lines = <<HeaderLine>> \o RowsInOrder(Done)
        /\ Len(DataLines(csv.lines)) = Cardinality(Done)

\* Two runs have succeeded one after the other.
C2_Witness ==
    /\ exclusive
    /\ Cardinality(Done) >= 2
    /\ Len(csv.lines) = 1 + Cardinality(Done)

\* C10: the log holds one header line per finished run that saw the file
\* missing at line 57; with one run at a time that is at most one, and
\* with concurrent runs two runs can both see it missing before either
\* opens it, which leaves two header lines.
C10_HeaderPerNewFileFlag ==
    /\ HeaderCount(csv.lines) = Cardinality({p \in Done : is_new_file[p]})
    /\ exclusive => HeaderCount(csv.lines) <= 1
    /\ \A p \in Procs : pc[p] \in {"open", "write"} /\ is_new_file[p] /\ exclusive
                           => csv.lines = <<>>

\* Two concurrent runs both wrote a header line.
C10_Witness ==
    /\ ~exclusive
    /\ HeaderCount(csv.lines) = 2
    /\ \A p \in {1, 2} : pc[p] = "done" /\ is_new_file[p]

---------------------------------------------------------------------------
(* Number formatting *)

\* The decimal digits of n, zero-padded on the left to w characters.
RECURSIVE Pad(_, _)
Pad(n, w) ==
    IF w <= 1 THEN ToString(n)
    ELSE ToString((n \div (10 ^ (w - 1))) % 10) \o Pad(n % (10 ^ (w - 1)), w - 1)

\* f"{n:,}" for an integer n >= 0 (lines 293-298, 343-348).
RECURSIVE FmtComma(_)
FmtComma(n) ==
    IF n < 1000 THEN ToString(n)
    ELSE FmtComma(n \div 1000) \o "," \o Pad(n % 1000, 3)

\* num/den scaled by 10^digits and rounded to the nearest integer, ties to
\* even: the digits "%.<digits>f" prints for the quotient (the quotients of
\* the model's inputs are no ties of the float arithmetic).
RoundedScaled(num, den, scale) ==
    LET q == (num * scale) \div den
        m == (num * scale) % den
    IN IF 2 * m > den THEN q + 1
       ELSE IF 2 * m < den THEN q
       ELSE IF q % 2 = 0 THEN q ELSE q + 1

\* merged / total * 100 if total > 0 else 0, in hundredths of a percent
\* (lines 289-290, 339-340).
Rate(merged, total) ==
    IF total > 0 THEN RoundedScaled(merged, total, 10000) ELSE 0

\* f"{rate:.2f}" for a rate in hundredths.
Fmt2f(h) == ToString(h \div 100) \o "." \o Pad(h % 100, 2)

\* f"{x:.1f}" for x = num/den.
Fmt1f(num, den) ==
    LET t == RoundedScaled(num, den, 10)
    IN ToString(t \div 10) \o "." \o ToString(t % 10)

\* Lines 201-206: the text of the label above a bar of height > 0.
LabelText(height) ==
    LET label_text == ToString(height)
    IN IF Len(label_text) > 10
       THEN IF height >= 1000 THEN Fmt1f(height, 1000) \o "k"
            ELSE IF height >= 1000000 THEN Fmt1f(height, 1000000) \o "M"
            ELSE label_text
       ELSE label_text

\* Lines 197-199: a bar of height 0 gets no label (the empty text).
ValueLabel(height) == IF height > 0 THEN LabelText(height) ELSE ""

---------------------------------------------------------------------------
(* The Reporter: reading the log and sampling it *)

\* Line 40: the most points the chart shows.
MaxPoints == 8

\* pd.read_csv (line 28): the first line names the columns, the others are
\* the rows; a file with no line at all raises EmptyDataError.
ReadCsvRaises(f) == f.lines = <<>>
ReadCsv(f) == Tail(f.lines)

\* np.linspace(0, stop, num=num, dtype=int) (line 42): the num positions
\* k * stop / (num - 1), the last one set to stop, each cut down to an
\* integer by the conversion to int.
LinspaceNearest(stop, num) ==
    [k \in 1..num |-> (2 * (k - 1) * stop + (num - 1)) \div (2 * (num - 1))]
LinspaceNoEndpoint(stop, num) ==
    [k \in 1..num |-> ((k - 1) * stop) \div num]
Linspace(stop, num) ==
    [k \in 1..num |->
        IF k = num THEN stop ELSE ((k - 1) * stop) \div (num - 1)]

\* Lines 39-43: the frame the chart and the two rewrites are given.
Sample(df) ==
    LET total_points == Len(df)
    IN IF total_points > MaxPoints
       THEN LET indices == Linspace(total_points - 1, MaxPoints)
            IN [k \in 1..MaxPoints |-> df[indices[k] + 1]]
       ELSE df

\* Lines 47-257: what the figure shows of the frame: per point its tick
\* label, the six bars with their value labels and the two percentage
\* markers with theirs; the figure's size and the resolution it is saved at.
Figure(df) ==
    LET num_points == Len(df)
        Pct(merged, total) ==
            IF total > 0 THEN Fmt1f(merged * 100, total) \o "%" ELSE "0.0%"
        Point(l) ==
            [tick |-> l.timestamp,
             bars |-> l.v,
             labels |-> [key \in KeySet |-> ValueLabel(l.v[key])],
             copilot_percentage |-> Pct(l.v.copilot_merged, l.v.copilot_total),
             codex_percentage |-> Pct(l.v.codex_merged, l.v.codex_total)]
    IN [points |-> [i \in 1..num_points |-> Point(df[i])],
        fig_width |-> IF num_points <= 3
                      THEN (IF num_points * 4 > 10 THEN num_points * 4 ELSE 10)
                      ELSE 14,
        fig_height |-> IF num_points <= 3 THEN 6 ELSE 8,
        dpi |-> IF num_points <= 5 THEN 150 ELSE 300]

---------------------------------------------------------------------------
(* The Reporter: README.md *)

Tok(k, s) == [k |-> k, s |-> s]
NL == Tok("ws", "\n")
Heading == Tok("heading", "## Current Statistics")

IsWs(t) == t.k = "ws"

\* str.rstrip(): without the whitespace at the end.
RECURSIVE RStrip(_)
RStrip(c) ==
    IF c # <<>> /\ IsWs(c[Len(c)]) THEN RStrip(SubSeq(c, 1, Len(c) - 1)) ELSE c

\* The least and the greatest element of a set of positions, 0 if empty.
MinOf(S) == IF S = {} THEN 0 ELSE CHOOSE x \in S : \A y \in S : x <= y
MaxOf(S) == IF S = {} THEN 0 ELSE CHOOSE x \in S : \A y \in S : x >= y

\* The position of the first token of kind k at or after i, 0 if none.
FirstFrom(c, k, i) == MinOf({j \in i..Len(c) : c[j].k = k})

\* Lines 286-308: the section, line by line.
FirstRow(df) == df[1]
LastRow(df) == df[Len(df)]

TableContent(latest) ==
    LET copilot_rate == Rate(latest.v.copilot_merged, latest.v.copilot_total)
        codex_rate == Rate(latest.v.codex_merged, latest.v.codex_total)
    IN <<Heading, NL, NL,
         Tok("text", "| Service | Total PRs | Merged PRs | Merge Rate | Total Commits |"), NL,
         Tok("text", "| ------- | --------- | ---------- | ---------- | ------------- |"), NL,
         Tok("text", "| Copilot | " \o FmtComma(latest.v.copilot_total) \o " | "
                        \o FmtComma(latest.v.copilot_merged) \o " | "
                        \o Fmt2f(copilot_rate) \o "% | N/A           |"), NL,
         Tok("text", "| Codex   | " \o FmtComma(latest.v.codex_total) \o " | "
                        \o FmtComma(latest.v.codex_merged) \o " | "
                        \o Fmt2f(codex_rate) \o "% | N/A           |"), NL,
         Tok("text", "| Devin   | N/A       | N/A        | N/A        | "
                        \o FmtComma(latest.v.devin_commits) \o " |"), NL,
         Tok("text", "| Jules   | N/A       | N/A        | N/A        | "
                        \o FmtComma(latest.v.jules_commits) \o " |")>>

\* Lines 311-318: the new content of README.md.
NewReadmeContent(c, table_content) ==
    LET h == FirstFrom(c, "heading", 1)
    IN IF h > 0
       THEN RStrip(SubSeq(c, 1, h - 1)) \o <<NL, NL>> \o table_content
       ELSE c \o <<NL, NL>> \o table_content

\* update_readme (lines 276-323).
UpdateReadme(f, df) ==
    IF ~f.exists THEN f
    ELSE [f EXCEPT !.content = NewReadmeContent(f.content, TableContent(LastRow(df)))]

---------------------------------------------------------------------------
(* The Reporter: docs/index.html *)

\* The document is a sequence of tokens: "<tr>", "</tr>", "</tbody>", a
\* cell <td>s</td> or <th>s</th> whose text s holds no "<", the element
\* <span id="last-updated">s</span>, a run of whitespace, any other markup.
TR == Tok("tr", "<tr>")
ETR == Tok("etr", "</tr>")
ETBODY == Tok("etbody", "</tbody>")
TD(s) == Tok("td", s)
TH(s) == Tok("th", s)
SPAN(s) == Tok("span", s)
WS24 == Tok("ws", "\n                        ")
WS20 == Tok("ws", "\n                    ")

\* \s* from position i: the position after the whitespace.
RECURSIVE SkipWs(_, _)
SkipWs(c, i) == IF i <= Len(c) /\ IsWs(c[i]) THEN SkipWs(c, i + 1) ELSE i

IsTd(c, i) == i <= Len(c) /\ c[i].k = "td"

\* The position of the last token of kind k, 0 if none.
LastOf(c, k) == MaxOf({j \in 1..Len(c) : c[j].k = k})

\* <tr>\s*<td>name</td> at i: the position of the name cell, 0 if no match.
RowStart(c, i, name) ==
    IF i >= 1 /\ i <= Len(c) /\ c[i] = TR
    THEN LET j == SkipWs(c, i + 1)
         IN IF j <= Len(c) /\ c[j] = TD(name) THEN j ELSE 0
    ELSE 0

\* The patterns of lines 358 and 366 at i: the positions of the three data
\* cells after the name cell, <<>> if no match.
PrMatch(c, i, name) ==
    LET j == RowStart(c, i, name)
        a == SkipWs(c, j + 1)
        b == SkipWs(c, a + 1)
        d == SkipWs(c, b + 1)
    IN IF j > 0 /\ IsTd(c, a) /\ IsTd(c, b) /\ IsTd(c, d) THEN <<a, b, d>> ELSE <<>>

\* re.sub of lines 359-371: every match, left to right, gets the three
\* cells rewritten.
RECURSIVE SubPr(_, _, _, _, _, _)
SubPr(c, i, name, total, merged, rate) ==
    LET at == MinOf({j \in i..Len(c) : PrMatch(c, j, name) # <<>>})
        m == PrMatch(c, at, name)
    IN IF at = 0 THEN SubSeq(c, i, Len(c))
       ELSE SubSeq(c, i, at - 1)
            \o [x \in 1..(m[3] - at + 1) |->
                    LET pos == at + x - 1
                    IN IF pos = m[1] THEN TD(total)
                       ELSE IF pos = m[2] THEN TD(merged)
                       ELSE IF pos = m[3] THEN TD(rate)
                       ELSE c[pos]]
            \o SubPr(c, m[3] + 1, name, total, merged, rate)

EndsWithPercent(s) == Len(s) >= 1 /\ SubSeq(s, Len(s), Len(s)) = "%"

\* The patterns of lines 381 and 391 at i: <<the rate cell, the first </tr>
\* after it>>, <<>> if no match.
CleanupMatch(c, i, name) ==
    LET m == PrMatch(c, i, name)
    IN IF m # <<>> /\ EndsWithPercent(c[m[3]].s) /\ FirstFrom(c, "etr", m[3] + 1) > 0
       THEN <<m[3], FirstFrom(c, "etr", m[3] + 1)>>
       ELSE <<>>

\* re.sub of lines 382-397: what stands between the rate cell and the end
\* of the row becomes the one cell N/A.
RECURSIVE SubCleanup(_, _, _)
SubCleanup(c, i, name) ==
    LET at == MinOf({j \in i..Len(c) : CleanupMatch(c, j, name) # <<>>})
        m == CleanupMatch(c, at, name)
    IN IF at = 0 THEN SubSeq(c, i, Len(c))
       ELSE SubSeq(c, i, m[1]) \o <<WS24, TD("N/A"), WS20, ETR>>
            \o SubCleanup(c, m[2] + 1, name)

\* str.replace(t, rep): every token t from position i on becomes rep.
RECURSIVE ReplaceEach(_, _, _, _)
ReplaceEach(c, i, t, rp) ==
    LET at == MinOf({j \in i..Len(c) : c[j] = t})
    IN IF at = 0 THEN SubSeq(c, i, Len(c))
       ELSE SubSeq(c, i, at - 1) \o rp \o ReplaceEach(c, at + 1, t, rp)

\* Lines 374-375.
EnsureHeaderCell(c) ==
    IF \E i \in 1..Len(c) : c[i] = TH("Total Commits") THEN c
    ELSE ReplaceEach(c, 1, TH("Merge Rate"),
                     <<TH("Merge Rate"), WS24, TH("Total Commits")>>)

\* Lines 401 and 412: the row of an agent counted by commits.
CommitRow(name, commits) ==
    <<TR, WS24, TD(name), WS24, TD("N/A"), WS24, TD("N/A"), WS24, TD("N/A"),
      WS24, TD(commits), WS20, ETR>>

\* The patterns of lines 400 and 411 at i: the position of the first </tr>
\* after the name cell, 0 if no match.
CommitMatch(c, i, name) ==
    LET j == RowStart(c, i, name)
    IN IF j > 0 THEN FirstFrom(c, "etr", j + 1) ELSE 0

RECURSIVE SubCommitRow(_, _, _, _)
SubCommitRow(c, i, name, rw) ==
    LET at == MinOf({j \in i..Len(c) : CommitMatch(c, j, name) > 0})
    IN IF at = 0 THEN SubSeq(c, i, Len(c))
       ELSE SubSeq(c, i, at - 1) \o rw
            \o SubCommitRow(c, CommitMatch(c, at, name) + 1, name, rw)

\* str.replace('</tbody>', row + ws + '</tbody>') (lines 405-408).
BeforeEachTbodyEnd(c, rw) == ReplaceEach(c, 1, ETBODY, rw \o <<WS20, ETBODY>>)

\* rsplit('</tbody>', 1) (lines 417-418).
BeforeLastTbodyEnd(c, rw) ==
    LET e == LastOf(c, "etbody")
    IN IF e > 0
       THEN SubSeq(c, 1, e - 1) \o rw \o <<WS20, ETBODY>> \o SubSeq(c, e + 1, Len(c))
       ELSE c

HasCommitRow(c, name) == \E i \in 1..Len(c) : CommitMatch(c, i, name) > 0

\* Lines 399-408.
AddOrUpdateDevin(c, rw) ==
    IF HasCommitRow(c, "Devin") THEN SubCommitRow(c, 1, "Devin", rw)
    ELSE BeforeEachTbodyEnd(c, rw)

\* Lines 410-418.
AlwaysInsertJules(c, rw) == BeforeLastTbodyEnd(c, rw)
AddOrUpdateJules(c, rw) ==
    IF HasCommitRow(c, "Jules") THEN SubCommitRow(c, 1, "Jules", rw)
    ELSE BeforeLastTbodyEnd(c, rw)

\* Lines 422-426.
SetLastUpdated(c, timestamp) ==
    [i \in 1..Len(c) |-> IF c[i].k = "span" THEN SPAN(timestamp) ELSE c[i]]

\* Lines 336-426: the new content of docs/index.html.
NewIndexContent(c, latest, timestamp) ==
    LET copilot_rate == Rate(latest.v.copilot_merged, latest.v.copilot_total)
        codex_rate == Rate(latest.v.codex_merged, latest.v.codex_total)
        c1 == SubPr(c, 1, "Copilot", FmtComma(latest.v.copilot_total),
                    FmtComma(latest.v.copilot_merged), Fmt2f(copilot_rate) \o "%")
        c2 == SubPr(c1, 1, "Codex", FmtComma(latest.v.codex_total),
                    FmtComma(latest.v.codex_merged), Fmt2f(codex_rate) \o "%")
        c3 == EnsureHeaderCell(c2)
        c4 == SubCleanup(c3, 1, "Copilot")
        c5 == SubCleanup(c4, 1, "Codex")
        c6 == AddOrUpdateDevin(c5, CommitRow("Devin", FmtComma(latest.v.devin_commits)))
        c7 == AddOrUpdateJules(c6, CommitRow("Jules", FmtComma(latest.v.jules_commits)))
    IN SetLastUpdated(c7, timestamp)

\* update_github_pages (lines 326-431).
UpdateGithubPages(f, df, timestamp) ==
    IF ~f.exists THEN f
    ELSE [f EXCEPT !.content = NewIndexContent(f.content, LastRow(df), timestamp)]

---------------------------------------------------------------------------
(* generate_chart *)

\* generate_chart (lines 16-273), with the calls it makes.
GenerateChart ==
    /\ IF ~csv.exists
       THEN /\ result' = "False"
            /\ UNCHANGED <<chart, docs_chart, readme, html>>
       ELSE IF ReadCsvRaises(csv)
       THEN /\ result' = "EmptyDataError"
            /\ UNCHANGED <<chart, docs_chart, readme, html>>
       ELSE IF Len(ReadCsv(csv)) = 0
       THEN /\ result' = "False"
            /\ UNCHANGED <<chart, docs_chart, readme, html>>
       ELSE LET df == Sample(ReadCsv(csv))
            IN /\ chart' = [exists |-> TRUE, fig |-> Figure(df)]
               /\ docs_chart' = IF docs THEN [exists |-> TRUE, fig |-> Figure(df)]
                                ELSE docs_chart
               /\ readme' = UpdateReadme(readme, df)
               /\ html' = UpdateGithubPages(html, df, now)
               /\ result' = "True"
    /\ UNCHANGED <<docs, now>>
    /\ UNCHANGED collectorVars

---------------------------------------------------------------------------
(* The files the Reporter is run on *)

\* A growing history: row i of the log.
BaseCounts(i) == Counts(10 * i + 2, 3 * i + 1, 8 * i, 4 * i, 3 * i, i)

LogOf(rows) == [exists |-> TRUE, lines |-> <<HeaderLine>> \o rows]

BaseLog(n) == LogOf([i \in 1..n |-> DataLine(i, BaseCounts(i))])

\* The rows of the spec's end-to-end scenario; a last row without any pull
\* request; a last row with large counts.
ScenarioLog ==
    LogOf(<<DataLine(1, Counts(10, 5, 8, 2, 3, 1)), DataLine(2, Counts(14, 9, 8, 4, 6, 2))>>)
NoPrLog ==
    LogOf(<<DataLine(1, Counts(3, 1, 0, 0, 0, 0)), DataLine(2, ZeroCounts)>>)
LargeLog ==
    LogOf(<<DataLine(1, Counts(5, 1, 2, 1, 0, 0)),
            DataLine(2, Counts(1234567, 98765, 12345, 42, 3400000, 1000))>>)

ReportCsvs ==
    {MissingCsv,
     [exists |-> TRUE, lines |-> <<>>],
     [exists |-> TRUE, lines |-> <<HeaderLine>>],
     ScenarioLog, NoPrLog, LargeLog}
    \cup {BaseLog(n) : n \in 1..MaxRows}

Title == Tok("text", "# PR Watcher")
OldTableLine == Tok("text", "| Copilot | 1 | 0 | 0.00% | N/A           |")

ReadmeContents ==
    {<<>>,
     <<Title>>,
     <<Title, NL>>,
     <<Title, NL, NL, Tok("text", "Notes."), Tok("ws", " "), NL>>,
     <<Title, NL, NL, Heading, NL, NL, OldTableLine>>,
     <<Title, NL, Heading, NL, NL, OldTableLine, NL, NL, Tok("text", "## Footer"), NL>>,
     <<Heading, NL, NL, OldTableLine, NL>>}

Readmes ==
    {[exists |-> FALSE, content |-> <<>>]}
    \cup {[exists |-> TRUE, content |-> c] : c \in ReadmeContents}

Agents == <<"Copilot", "Codex", "Devin", "Jules">>
AgentSet == {"Copilot", "Codex", "Devin", "Jules"}
PrAgents == {"Copilot", "Codex"}
CommitAgents == {"Devin", "Jules"}

W == Tok("ws", "\n    ")
Other(s) == Tok("other", s)

\* A row as an earlier revision of the page holds it: a pull-request agent
\* with or without the commits cell, a commit agent with its count.
OldRow(name, withCommitsCell) ==
    IF name \in PrAgents
    THEN <<W, TR, W, TD(name), W, TD("1,200"), W, TD("300"), W, TD("25.00%")>>
         \o (IF withCommitsCell THEN <<W, TD("N/A")>> ELSE <<>>) \o <<W, ETR>>
    ELSE <<W, TR, W, TD(name), W, TD("N/A"), W, TD("N/A"), W, TD("N/A"), W, TD("77"),
           W, ETR>>

RECURSIVE OldRows(_, _, _)
OldRows(present, withCommitsCell, i) ==
    IF i > Len(Agents) THEN <<>>
    ELSE (IF Agents[i] \in present THEN OldRow(Agents[i], withCommitsCell) ELSE <<>>)
         \o OldRows(present, withCommitsCell, i + 1)

\* The page: the table's header row, the rows of the agents in `present`,
\* the end of the table body (or a table written without it), the span.
HtmlDoc(present, withCommitsColumn, withTbodyEnd) ==
    <<Other("<table>"), W, Other("<thead>"), W, TR, W, TH("Service"), W,
      TH("Total PRs"), W, TH("Merged PRs"), W, TH("Merge Rate")>>
    \o (IF withCommitsColumn THEN <<W, TH("Total Commits")>> ELSE <<>>)
    \o <<W, ETR, W, Other("</thead>"), W, Other("<tbody>")>>
    \o OldRows(present, withCommitsColumn, 1)
    \o (IF withTbodyEnd THEN <<W, ETBODY>> ELSE <<>>)
    \o <<W, Other("</table>"), W, Other("<p>Last updated: "), SPAN("never"), Other("</p>")>>

Htmls ==
    {[exists |-> FALSE, content |-> <<>>]}
    \cup {[exists |-> TRUE, content |-> HtmlDoc(present, cc, te)] :
            present \in SUBSET AgentSet, cc \in BOOLEAN, te \in BOOLEAN}

ReportInit ==
    /\ csv \in ReportCsvs
    /\ readme \in Readmes
    /\ html \in Htmls
    /\ docs \in (IF html.exists THEN {TRUE} ELSE BOOLEAN)
    /\ chart = [exists |-> FALSE, fig |-> "none"]
    /\ docs_chart = [exists |-> FALSE, fig |-> "none"]
    /\ now = "June 01, 2025 12:00 UTC"
    /\ result = "not run"
    /\ exclusive = TRUE
    /\ remote = ZeroCounts
    /\ CollectorIdle

ReportNext == GenerateChart

ReportSpec == ReportInit /\ [][ReportNext]_vars

---------------------------------------------------------------------------
(* Reading the artifacts back *)

Char(s, i) == SubSeq(s, i, i)

DigitOf(ch) ==
    CASE ch = "0" -> 0 [] ch = "1" -> 1 [] ch = "2" -> 2 [] ch = "3" -> 3
      [] ch = "4" -> 4 [] ch = "5" -> 5 [] ch = "6" -> 6 [] ch = "7" -> 7
      [] ch = "8" -> 8 [] ch = "9" -> 9 [] OTHER -> -1

\* The number a text shows, its digits read left to right and the
\* characters in `skip` passed over; -1 if it holds anything else or no digit.
RECURSIVE ReadDigits(_, _, _, _, _)
ReadDigits(s, i, acc, seen, skip) ==
    IF i > Len(s) THEN (IF seen THEN acc ELSE -1)
    ELSE IF Char(s, i) \in skip THEN ReadDigits(s, i + 1, acc, seen, skip)
    ELSE IF DigitOf(Char(s, i)) < 0 THEN -1
    ELSE ReadDigits(s, i + 1, 10 * acc + DigitOf(Char(s, i)), TRUE, skip)

\* "1,234" read as 1234.
ReadCount(s) == ReadDigits(s, 1, 0, FALSE, {","})

\* "64.29%" read as 6429 hundredths: two decimals and the percent sign.
ReadRate(s) ==
    IF Len(s) >= 5 /\ Char(s, Len(s)) = "%" /\ Char(s, Len(s) - 3) = "."
    THEN ReadDigits(SubSeq(s, 1, Len(s) - 1), 1, 0, FALSE, {"."})
    ELSE -1

\* The cells of a Markdown table line, without the blanks around them.
Bars(s) == {i \in 1..Len(s) : Char(s, i) = "|"}

RECURSIVE Trim(_)
Trim(s) ==
    IF Len(s) >= 1 /\ Char(s, 1) = " " THEN Trim(SubSeq(s, 2, Len(s)))
    ELSE IF Len(s) >= 1 /\ Char(s, Len(s)) = " " THEN Trim(SubSeq(s, 1, Len(s) - 1))
    ELSE s

Cell(s, n) ==
    LET b == Bars(s)
        from == CHOOSE i \in b : Cardinality({j \in b : j < i}) = n - 1
        to == CHOOSE i \in b : Cardinality({j \in b : j < i}) = n
    IN Trim(SubSeq(s, from + 1, to - 1))

\* hundredths h is merged/total*100 rounded to two decimals (0 for total 0).
IsRateOf(h, merged, total) ==
    IF total = 0 THEN h = 0
    ELSE /\ 2 * (h * total - merged * 10000) <= total
         /\ 2 * (merged * 10000 - h * total) <= total

\* The log's rows as the Reporter loads them, and the most recent one.
LogRows == ReadCsv(csv)
Latest == LogRows[Len(LogRows)]

\* The positions in c where a row of the agent starts.
RowsOf(c, name) == {i \in 1..Len(c) : RowStart(c, i, name) > 0}

\* The texts of the cells of the row starting at i, up to its </tr>.
RowCells(c, i) ==
    LET e == FirstFrom(c, "etr", i)
        last == IF e = 0 THEN Len(c) ELSE e
    IN SelectSeq(SubSeq(c, i, last), LAMBDA t : t.k = "td")

\* The row at i shows the latest values of a pull-request agent.
ShowsPr(cells, total, merged) ==
    /\ Len(cells) = 5
    /\ ReadCount(cells[2].s) = total
    /\ ReadCount(cells[3].s) = merged
    /\ IsRateOf(ReadRate(cells[4].s), merged, total)
    /\ cells[5].s = "N/A"

\* The row at i shows the latest count of a commit agent.
ShowsCommits(cells, commits) ==
    /\ Len(cells) = 5
    /\ cells[2].s = "N/A" /\ cells[3].s = "N/A" /\ cells[4].s = "N/A"
    /\ ReadCount(cells[5].s) = commits

---------------------------------------------------------------------------
(* Claims about the Reporter *)

\* C4: for a log of n >= 1 rows the chart shows min(n, 8) points; for
\* n > 8 the first is the log's first row and the last the log's last
\* row; for n <= 8 the points are the whole log in order.
C4_SampleShape ==
    result = "True" =>
        LET n == Len(LogRows)
            pts == chart.fig.points
            Shows(k, i) == pts[k].tick = LogRows[i].timestamp /\ pts[k].bars = LogRows[i].v
        IN /\ Len(pts) = (IF n > MaxPoints THEN MaxPoints ELSE n)
           /\ n > MaxPoints => Shows(1, 1) /\ Shows(MaxPoints, n)
           /\ n <= MaxPoints => \A i \in 1..n : Shows(i, i)

\* A chart of a log of more than 8 rows.
C4_Witness ==
    /\ result = "True"
    /\ Len(LogRows) > MaxPoints + 1
    /\ Len(chart.fig.points) = MaxPoints

\* C9 as claimed: for n > 8 the k-th point (k = 0..7) is the row at
\* k*(n-1)/7 rounded to the nearest index, and no row is shown twice.
C9_NearestIndex ==
    result = "True" /\ Len(LogRows) > MaxPoints =>
        LET n == Len(LogRows)
            pts == chart.fig.points
        IN /\ \A k \in 0..(MaxPoints - 1) :
                 pts[k + 1].tick =
                     LogRows[((2 * k * (n - 1) + (MaxPoints - 1)) \div (2 * (MaxPoints - 1))) + 1].timestamp
           /\ \A j, k \in 1..MaxPoints : j < k => pts[j].tick < pts[k].tick

\* C9 as amended: for n > 8 the k-th point (k = 0..7) is the row at
\* k*(n-1)/7 cut down to an integer index i (7i <= k(n-1) < 7(i+1)), and
\* the 8 indices are strictly increasing, so no row is shown twice.
C9_TruncatedIndex ==
    result = "True" /\ Len(LogRows) > MaxPoints =>
        LET n == Len(LogRows)
            pts == chart.fig.points
        IN /\ \A k \in 0..(MaxPoints - 1) :
                 \E i \in 0..(n - 1) :
                    /\ (MaxPoints - 1) * i <= k * (n - 1)
                    /\ k * (n - 1) < (MaxPoints - 1) * (i + 1)
                    /\ pts[k + 1].tick = LogRows[i + 1].timestamp
           /\ \A j, k \in 1..MaxPoints : j < k => pts[j].tick < pts[k].tick

\* A chart of a log of 10 rows, where cutting down and rounding differ.
C9_Witness ==
    /\ result = "True"
    /\ Len(LogRows) = 10
    /\ chart.fig.points[3].tick = LogRows[3].timestamp

\* C5: after a run the README table and the HTML rows show the values of
\* the most recent row of the full log, whatever the log's length: each
\* pull-request agent's total and merged count and the rate
\* merged/total*100 with two decimals (0.00% for a total of 0), each commit
\* agent's count; a last row codex_total=8, codex_merged=4 reads 8, 4, 50.00%.
C5_LatestValues ==
    result = "True" =>
        /\ readme.exists =>
            LET c == readme.content
                copilot == c[Len(c) - 6].s
                codex == c[Len(c) - 4].s
                devin == c[Len(c) - 2].s
                jules == c[Len(c)].s
            IN /\ Cell(copilot, 1) = "Copilot"
               /\ ReadCount(Cell(copilot, 2)) = Latest.v.copilot_total
               /\ ReadCount(Cell(copilot, 3)) = Latest.v.copilot_merged
               /\ IsRateOf(ReadRate(Cell(copilot, 4)), Latest.v.copilot_merged,
                           Latest.v.copilot_total)
               /\ Cell(codex, 1) = "Codex"
               /\ ReadCount(Cell(codex, 2)) = Latest.v.codex_total
               /\ ReadCount(Cell(codex, 3)) = Latest.v.codex_merged
               /\ IsRateOf(ReadRate(Cell(codex, 4)), Latest.v.codex_merged,
                           Latest.v.codex_total)
               /\ Cell(devin, 1) = "Devin"
               /\ ReadCount(Cell(devin, 5)) = Latest.v.devin_commits
               /\ Cell(jules, 1) = "Jules"
               /\ ReadCount(Cell(jules, 5)) = Latest.v.jules_commits
               /\ (Latest.v.codex_total = 8 /\ Latest.v.codex_merged = 4)
                     => codex = "| Codex   | 8 | 4 | 50.00% | N/A           |"
               /\ Latest.v.codex_total = 0 => Cell(codex, 4) = "0.00%"
        /\ html.exists =>
            LET c == html.content
            IN /\ \A i \in RowsOf(c, "Copilot") :
                    ShowsPr(RowCells(c, i), Latest.v.copilot_total, Latest.v.copilot_merged)
               /\ \A i \in RowsOf(c, "Codex") :
                    ShowsPr(RowCells(c, i), Latest.v.codex_total, Latest.v.codex_merged)
               /\ \A i \in RowsOf(c, "Codex") :
                    (Latest.v.codex_total = 8 /\ Latest.v.codex_merged = 4)
                        => /\ RowCells(c, i)[2].s = "8"
                           /\ RowCells(c, i)[3].s = "4"
                           /\ RowCells(c, i)[4].s = "50.00%"

\* Both artifacts rewritten from a log of more than 8 rows.
C5_Witness ==
    /\ result = "True"
    /\ Len(LogRows) > MaxPoints + 1
    /\ readme.exists
    /\ html.exists
    /\ RowsOf(html.content, "Copilot") # {}
    /\ RowsOf(html.content, "Codex") # {}

\* The agents of the rows of c, in the order of the document.
RECURSIVE RowNamesFrom(_, _)
RowNamesFrom(c, i) ==
    LET at == MinOf({j \in i..Len(c) : \E a \in AgentSet : RowStart(c, j, a) > 0})
    IN IF at = 0 THEN <<>>
       ELSE <<c[SkipWs(c, at + 1)].s>> \o RowNamesFrom(c, at + 1)

RowNames(c) == RowNamesFrom(c, 1)

HasTbodyEnd(c) == LastOf(c, "etbody") > 0

\* The row(s) of the agent in c show the latest values.
ShowsLatest(c, a) ==
    \A i \in RowsOf(c, a) :
        CASE a = "Copilot" ->
               ShowsPr(RowCells(c, i), Latest.v.copilot_total, Latest.v.copilot_merged)
          [] a = "Codex" ->
               ShowsPr(RowCells(c, i), Latest.v.codex_total, Latest.v.codex_merged)
          [] a = "Devin" -> ShowsCommits(RowCells(c, i), Latest.v.devin_commits)
          [] a = "Jules" -> ShowsCommits(RowCells(c, i), Latest.v.jules_commits)

\* C7 as claimed: after update_github_pages ran on a page whose table has
\* its closing tag, the table holds exactly one row for each of the four
\* agents, with the latest values, whichever rows were there before.
C7_OneRowPerAgent ==
    (result = "True" /\ html.exists /\ HasTbodyEnd(html.content)) =>
        \A a \in AgentSet :
            /\ Cardinality(RowsOf(html.content, a)) = 1
            /\ ShowsLatest(html.content, a)

\* C7 as amended: on a page whose table has its closing </tbody> and at
\* most one row per agent, update_github_pages leaves exactly one Devin
\* and one Jules row with the latest counts (a row that was there is
\* overwritten in place, one that was not is inserted before </tbody>);
\* a Copilot or Codex row that was there is overwritten in place with the
\* latest values, never duplicated, and one that was not there is not
\* inserted; the rows keep their order.
C7_CommitRowsInsertedPrRowsOnlyUpdated ==
    [][(html.exists /\ result' = "True" /\ HasTbodyEnd(html.content)
          /\ \A a \in AgentSet : Cardinality(RowsOf(html.content, a)) <= 1) =>
         LET c == html.content
             d == html'.content
         IN /\ RowNames(d) =
                   RowNames(c)
                   \o (IF RowsOf(c, "Devin") = {} THEN <<"Devin">> ELSE <<>>)
                   \o (IF RowsOf(c, "Jules") = {} THEN <<"Jules">> ELSE <<>>)
            /\ \A a \in CommitAgents : Cardinality(RowsOf(d, a)) = 1
            /\ \A a \in PrAgents : Cardinality(RowsOf(d, a)) = Cardinality(RowsOf(c, a))
            /\ \A a \in AgentSet : ShowsLatest(d, a)
            /\ \A a \in AgentSet : \A i \in RowsOf(d, a) :
                  FirstFrom(d, "etr", i) < LastOf(d, "etbody")]_vars

\* A page that had a Codex row and no other: Codex overwritten, Devin and
\* Jules inserted, Copilot still absent.
C7_Witness ==
    /\ result = "True"
    /\ html.exists
    /\ HasTbodyEnd(html.content)
    /\ RowNames(html.content) = <<"Codex", "Devin", "Jules">>
    /\ ShowsLatest(html.content, "Codex")

\* C3 as claimed: once the rewrite has run, running it again on the same
\* log at the same clock reading leaves README.md and docs/index.html
\* byte for byte as they are.
C3_RewriteIdempotent ==
    result = "True" =>
        /\ UpdateReadme(readme, Sample(LogRows)) = readme
        /\ UpdateGithubPages(html, Sample(LogRows), now) = html

\* C6 as claimed: on a log that is missing or holds no data row,
\* generate_chart returns False and writes none of its outputs.
C6_GracefulFailure ==
    [][(~csv.exists \/ DataLines(csv.lines) = <<>>) =>
          (result' = "False" /\ UNCHANGED <<chart, docs_chart, readme, html>>)]_vars

\* The label the claim gives a bar of height h > 0.
ClaimedLabel(h) ==
    IF h < 1000 THEN ToString(h)
    ELSE IF h < 1000000 THEN Fmt1f(h, 1000) \o "k"
    ELSE Fmt1f(h, 1000000) \o "M"

\* C8 as claimed: a bar of positive height h is labelled with the plain
\* integer below 1000, the one-decimal "k" form from 1000 and the
\* one-decimal "M" form from 1,000,000.
C8_AbbreviatedLabels ==
    chart.exists =>
        \A k \in 1..Len(chart.fig.points) : \A key \in KeySet :
            LET pt == chart.fig.points[k]
            IN pt.bars[key] > 0 => pt.labels[key] = ClaimedLabel(pt.bars[key])

===========================================================================
